---- MODULE Spec2Model ----
(***************************************************************************)
(* A model of compute_torque.py: the frame normaliser                      *)
(* (compute_torque_frame), the run classifier (extract_test_type,          *)
(* extract_pilot_short_name), the batch processor (main) and the           *)
(* comparison aggregator (create_comparison_plots).                        *)
(*                                                                         *)
(* Floating point values are modelled as pairs <<n, d>>: a rational n/d    *)
(* in lowest terms with d > 0, NaN as <<0, 0>>, +inf as <<1, 0>> and -inf  *)
(* as <<-1, 0>>, with the IEEE rules for products and quotients (x/0 is    *)
(* +-inf, 0/0 is NaN, NaN is absorbing), which is what numpy computes      *)
(* under np.errstate(divide="ignore", invalid="ignore").                   *)
(* Strings are sequences of one-character strings.                         *)
(***************************************************************************)
EXTENDS Integers, Sequences, FiniteSets, TLC

VARIABLES
    pc,               \* position of the program being run
    df,               \* compute_torque_frame: the raw run [cols, rows]
    gear3_teeth,      \* physical parameters
    gear4_teeth,
    wheel2_radius_m,
    ts_raises,        \* whether the timestamp block (lines 21-24) raises, as
                      \* it does on timestamps of mixed time zones
    df_torque,        \* the normalised frame (a sequence of rows)
    stats,            \* the summary statistics of df_torque
    filename,         \* extract_test_type: its argument
    test_type,        \* and its result
    pilot_dir_name,   \* extract_pilot_short_name: its argument
    short_name,       \* and its result
    input_exists,     \* main: whether the input root exists
    input_files,      \* the run file at input_root/<pilot>/<file>, if any
    out_dirs,         \* the directories under (and including) the output root
    out_csv,          \* the normalised run at output_root/csv/<pilot>/<file>, if any
    out_plots,        \* the runs with a plot at output_root/plots/<pilot>/
    summary_csv,      \* output_root/summary.csv, if written
    comparison_plots, \* the overlay of each test type, if saved
    writes,           \* the paths under the output root this batch created or rewrote
    csv_files,        \* main's local: the runs discovered
    run_index,        \* the position of main's loop in csv_files
    summary_records,  \* main's local
    exit_code         \* how main ended

frameVars == <<pc, df, gear3_teeth, gear4_teeth, wheel2_radius_m, ts_raises,
               df_torque, stats>>

classVars == <<filename, test_type>>

nameVars == <<pilot_dir_name, short_name>>

batchVars == <<input_exists, input_files, out_dirs, out_csv, out_plots, summary_csv,
               comparison_plots, writes, csv_files, run_index, summary_records, exit_code>>

vars == <<frameVars, classVars, nameVars, batchVars>>

----------------------------------------------------------------------------
(* Bounds of the model *)

MaxRows == 2

----------------------------------------------------------------------------
(* Floating point arithmetic *)

Abs(x) == IF x < 0 THEN -x ELSE x

Sgn(x) == IF x < 0 THEN -1 ELSE IF x = 0 THEN 0 ELSE 1

RECURSIVE Gcd(_, _)
Gcd(a, b) == IF b = 0 THEN a ELSE Gcd(b, a % b)

Norm(n, d) ==
    IF d = 0 THEN <<Sgn(n), 0>>
    ELSE LET g == Gcd(Abs(n), Abs(d))
         IN  <<Sgn(d) * (n \div g), Sgn(d) * (d \div g)>>

NaN == <<0, 0>>

F(i) == <<i, 1>>

IsFinite(x) == x[2] # 0

IsInf(x) == x[2] = 0 /\ x[1] # 0

FMul(x, y) == Norm(x[1] * y[1], x[2] * y[2])

FDiv(x, y) == Norm(x[1] * y[2], x[2] * y[1])

FAdd(x, y) == Norm(x[1] * y[2] + y[1] * x[2], x[2] * y[2])

FSub(x, y) == FAdd(x, FMul(y, F(-1)))

FLess(x, y) == x # NaN /\ y # NaN /\ x # y /\
               IF x[2] = 0 THEN x[1] < 0
               ELSE IF y[2] = 0 THEN y[1] > 0
               ELSE x[1] * y[2] < y[1] * x[2]

----------------------------------------------------------------------------
(* compute_torque_frame *)

RequiredColumns == {"timestamp", "power", "speed"}

\* A cell of the raw run: <<>> is a missing or unparsable value, <<v>> parses to v.
TimestampCells == {<<>>, <<0>>, <<5>>}
SpeedCells == {<<>>, <<0>>, <<2>>, <<-1>>}
PowerCells == {<<>>, <<0>>, <<3>>}

\* The cells of a column: a column the file lacks has no values
CellsOf(cols, col, cells) == IF col \in cols THEN cells ELSE {<<>>}

RowsOver(cols) ==
    [timestamp : CellsOf(cols, "timestamp", TimestampCells),
     speed : CellsOf(cols, "speed", SpeedCells),
     power : CellsOf(cols, "power", PowerCells)]

RawRuns ==
    UNION {UNION {[cols : {cols}, rows : [1..n -> RowsOver(cols)]] : n \in 0..MaxRows}
           : cols \in SUBSET RequiredColumns}

\* lines 16-18: a missing timestamp column is all NaN, a missing power or
\* speed column is all 0.0
ensure_columns(d) ==
    [i \in 1..Len(d.rows) |->
        [col \in RequiredColumns |->
            IF col \in d.cols THEN d.rows[i][col]
            ELSE IF col = "timestamp" THEN <<>> ELSE <<0>>]]

\* NaT, the missing value of a datetime or timedelta column
NaT == NaN

\* pd.to_datetime(errors="coerce"): the parsed time in seconds, NaT for what
\* does not parse
to_datetime(cell) == IF cell = <<>> THEN NaT ELSE F(cell[1])

\* ts.dropna().min(): NaT when nothing is left
min_timestamp(ts) ==
    LET parsed == {ts[i] : i \in {j \in 1..Len(ts) : ts[j] # NaT}}
    IN  IF parsed = {} THEN NaT
        ELSE CHOOSE t \in parsed : \A u \in parsed : ~FLess(u, t)

\* lines 21-26: (ts - t0).dt.total_seconds(), where a NaT on either side
\* gives NaN and nothing raises; the ordinal index when the block raises
time_s(rows, raises) ==
    IF raises THEN [i \in 1..Len(rows) |-> F(i - 1)]
    ELSE LET ts == [i \in 1..Len(rows) |-> to_datetime(rows[i].timestamp)]
             t0 == min_timestamp(ts)
         IN  [i \in 1..Len(rows) |-> FSub(ts[i], t0)]

\* pd.to_numeric(errors="coerce")
to_numeric(cell) == IF cell = <<>> THEN NaN ELSE F(cell[1])

fillna(x, v) == IF x = NaN THEN v ELSE x

\* line 29: mph * 0.44704 = m/s
MPH_TO_MPS == <<1397, 3125>>

speed_mps(cell) == FMul(fillna(to_numeric(cell), F(0)), MPH_TO_MPS)

\* line 32
power_w(cell) == fillna(to_numeric(cell), F(0))

ratio_inverted(g3, g4) == IF g3 # 0 THEN FDiv(F(g3), F(g4)) ELSE NaN

\* line 35
ratio(g3, g4) == IF g3 # 0 THEN FDiv(F(g4), F(g3)) ELSE NaN

replace_nothing(x) == x

\* line 37: .replace({0.0: np.nan})
replace_zero(x) == IF x = F(0) THEN NaN ELSE x

\* line 37
torque4_nm(p, s, g3, g4, r) ==
    FDiv(FMul(FMul(p, ratio(g3, g4)), r), replace_zero(s))

compute_torque_frame(d, g3, g4, r, raises) ==
    LET rows == ensure_columns(d)
        t == time_s(rows, raises)
    IN  [i \in 1..Len(rows) |->
            LET s == speed_mps(rows[i].speed)
                p == power_w(rows[i].power)
            IN  [timestamp |-> rows[i].timestamp,
                 speed |-> rows[i].speed,
                 power |-> rows[i].power,
                 time_s |-> t[i],
                 speed_mps |-> s,
                 power_w |-> p,
                 torque4_nm |-> torque4_nm(p, s, g3, g4, r)]]

----------------------------------------------------------------------------
(* The summary statistics of main, lines 206-207 *)

RECURSIVE Insert(_, _)
Insert(v, s) ==
    IF s = <<>> THEN <<v>>
    ELSE IF FLess(s[1], v) THEN <<s[1]>> \o Insert(v, Tail(s))
    ELSE <<v>> \o s

RECURSIVE SortValues(_)
SortValues(s) == IF s = <<>> THEN <<>> ELSE Insert(s[1], SortValues(Tail(s)))

DropNaN(vals) == SelectSeq(vals, LAMBDA v : v # NaN)

\* np.nanmedian: NaN for an empty or all-NaN array
nanmedian(vals) ==
    LET s == SortValues(DropNaN(vals))
        n == Len(s)
    IN  IF n = 0 THEN NaN
        ELSE IF n % 2 = 1 THEN s[(n + 1) \div 2]
        ELSE FDiv(FAdd(s[n \div 2], s[n \div 2 + 1]), F(2))

\* np.nanmax raises ValueError on a zero-size array
nanmax_raises(vals) == Len(vals) = 0

\* np.nanmax: NaN for an all-NaN array
nanmax(vals) ==
    LET s == SortValues(DropNaN(vals))
    IN  IF s = <<>> THEN NaN ELSE s[Len(s)]

TorqueValues(frame) == [i \in 1..Len(frame) |-> frame[i].torque4_nm]

NoStats == [raised |-> FALSE, torque_median_nm |-> NaN, torque_max_nm |-> NaN]

\* the statistics of a summary record, or the ValueError of np.nanmax
summary_stats(frame) ==
    IF nanmax_raises(TorqueValues(frame))
    THEN [raised |-> TRUE, torque_median_nm |-> NaN, torque_max_nm |-> NaN]
    ELSE [raised |-> FALSE,
          torque_median_nm |-> nanmedian(TorqueValues(frame)),
          torque_max_nm |-> nanmax(TorqueValues(frame))]

----------------------------------------------------------------------------
(* The variables of the parts a specification does not run *)

IdleFrame ==
    /\ df = [cols |-> {}, rows |-> <<>>]
    /\ gear3_teeth = 0
    /\ gear4_teeth = 0
    /\ wheel2_radius_m = NaN
    /\ ts_raises = FALSE
    /\ df_torque = <<>>
    /\ stats = NoStats

IdleClassifier == filename = <<>> /\ test_type = ""

IdleNamer == pilot_dir_name = <<>> /\ short_name = <<>>

IdleBatch ==
    /\ input_exists = FALSE
    /\ input_files = <<>>
    /\ out_dirs = {}
    /\ out_csv = <<>>
    /\ out_plots = {}
    /\ summary_csv = [written |-> FALSE, records |-> <<>>]
    /\ comparison_plots = <<>>
    /\ writes = {}
    /\ csv_files = <<>>
    /\ run_index = 0
    /\ summary_records = <<>>
    /\ exit_code = "none"

----------------------------------------------------------------------------
(* Strings: sequences of one-character strings *)

UpperLetters == <<"A", "B", "C", "D", "E", "F", "G", "H", "I", "J", "K", "L", "M",
                  "N", "O", "P", "Q", "R", "S", "T", "U", "V", "W", "X", "Y", "Z">>

LowerLetters == <<"a", "b", "c", "d", "e", "f", "g", "h", "i", "j", "k", "l", "m",
                  "n", "o", "p", "q", "r", "s", "t", "u", "v", "w", "x", "y", "z">>

Whitespace == {" ", "\t", "\n"}

\* str.isupper and str.islower of one character
isupper(c) == \E i \in 1..Len(UpperLetters) : UpperLetters[i] = c

islower(c) == \E i \in 1..Len(LowerLetters) : LowerLetters[i] = c

LowerChar(c) ==
    IF isupper(c) THEN LowerLetters[CHOOSE i \in 1..Len(UpperLetters) : UpperLetters[i] = c]
    ELSE c

\* str.lower
lower(s) == [i \in 1..Len(s) |-> LowerChar(s[i])]

StartsWith(s, sub) == Len(sub) <= Len(s) /\ SubSeq(s, 1, Len(sub)) = sub

\* sub in s
RECURSIVE In(_, _)
In(sub, s) ==
    IF Len(s) < Len(sub) THEN FALSE
    ELSE IF StartsWith(s, sub) THEN TRUE
    ELSE In(sub, Tail(s))

RECURSIVE Concat(_)
Concat(parts) == IF parts = <<>> THEN <<>> ELSE parts[1] \o Concat(Tail(parts))

\* the strings made of at most n fragments
Compose(fragments, n) == {Concat(parts) : parts \in UNION {[1..k -> fragments] : k \in 0..n}}

----------------------------------------------------------------------------
(* extract_test_type *)

MaxFragments == 3

S250 == <<"2", "5", "0">>
S200 == <<"2", "0", "0">>
S150 == <<"1", "5", "0">>
SPassive == <<"p", "a", "s", "s", "i", "v", "e">>

extract_test_type_200_first(name) ==
    LET filename_lower == lower(name)
    IN  IF In(S200, filename_lower) /\ ~In(SPassive, filename_lower) THEN "200W"
        ELSE IF In(S250, filename_lower) /\ ~In(SPassive, filename_lower) THEN "250W"
        ELSE IF In(S150, filename_lower) /\ ~In(SPassive, filename_lower) THEN "150W"
        ELSE IF In(SPassive, filename_lower) THEN "Passive"
        ELSE "Unknown"

extract_test_type(name) ==
    LET filename_lower == lower(name)
    IN  IF In(S250, filename_lower) /\ ~In(SPassive, filename_lower) THEN "250W"
        ELSE IF In(S200, filename_lower) /\ ~In(SPassive, filename_lower) THEN "200W"
        ELSE IF In(S150, filename_lower) /\ ~In(SPassive, filename_lower) THEN "150W"
        ELSE IF In(SPassive, filename_lower) THEN "Passive"
        ELSE "Unknown"

FilenameFragments ==
    {<<"2", "5", "0">>,
     <<"2", "0", "0">>,
     <<"1", "5", "0">>,
     <<"p", "a", "s", "s", "i", "v", "e">>,
     <<"P", "A", "S", "S", "I", "V", "E">>,
     <<"P", "a", "s", "s">>,
     <<"i", "v", "e">>,
     <<"2", "5">>,
     <<"0">>,
     <<"1">>,
     <<"5", "0">>,
     <<"W">>,
     <<"_">>}

Filenames == Compose(FilenameFragments, MaxFragments)

InitTestType ==
    /\ pc = "classify"
    /\ filename \in Filenames
    /\ test_type = ""
    /\ IdleFrame
    /\ IdleNamer
    /\ IdleBatch

ExtractTestType ==
    /\ pc = "classify"
    /\ test_type' = extract_test_type(filename)
    /\ pc' = "classified"
    /\ UNCHANGED <<filename, nameVars, batchVars>>
    /\ UNCHANGED <<df, gear3_teeth, gear4_teeth, wheel2_radius_m, ts_raises, df_torque, stats>>

NextTestType == ExtractTestType

SpecTestType == InitTestType /\ [][NextTestType]_vars

----------------------------------------------------------------------------
(* extract_pilot_short_name *)

STests == <<" ", "T", "e", "s", "t", "s">>

\* str.replace(old, new, 1)
RECURSIVE replace_first(_, _, _)
replace_first(s, old, new) ==
    IF Len(s) < Len(old) THEN s
    ELSE IF StartsWith(s, old) THEN new \o SubSeq(s, Len(old) + 1, Len(s))
    ELSE <<s[1]>> \o replace_first(Tail(s), old, new)

\* str.replace(old, new): every occurrence, scanning from the left
RECURSIVE replace(_, _, _)
replace(s, old, new) ==
    IF Len(s) < Len(old) THEN s
    ELSE IF StartsWith(s, old) THEN new \o replace(SubSeq(s, Len(old) + 1, Len(s)), old, new)
    ELSE <<s[1]>> \o replace(Tail(s), old, new)

RECURSIVE lstrip(_)
lstrip(s) == IF s # <<>> /\ s[1] \in Whitespace THEN lstrip(Tail(s)) ELSE s

RECURSIVE rstrip(_)
rstrip(s) ==
    IF s # <<>> /\ s[Len(s)] \in Whitespace THEN rstrip(SubSeq(s, 1, Len(s) - 1)) ELSE s

\* str.strip
strip(s) == rstrip(lstrip(s))

extract_pilot_short_name(dir_name) ==
    LET name == strip(replace(dir_name, STests, <<>>))
    IN  IF Len(name) > 1 /\ isupper(name[Len(name)]) /\ islower(name[Len(name) - 1])
        THEN SubSeq(name, 1, Len(name) - 1) \o <<" ">> \o <<name[Len(name)]>>
        ELSE name

DirNameFragments ==
    {<<"A", "l">>,
     <<"R">>,
     <<" ", "T", "e", "s", "t", "s">>,
     <<" ">>,
     <<"T", "e", "s", "t", "s">>,
     <<" ", "t", "e", "s", "t", "s">>,
     <<"a">>,
     <<"2">>}

DirNames == Compose(DirNameFragments, MaxFragments)

InitPilotName ==
    /\ pc = "name"
    /\ pilot_dir_name \in DirNames
    /\ short_name = <<>>
    /\ IdleFrame
    /\ IdleClassifier
    /\ IdleBatch

ExtractPilotShortName ==
    /\ pc = "name"
    /\ short_name' = extract_pilot_short_name(pilot_dir_name)
    /\ pc' = "named"
    /\ UNCHANGED <<pilot_dir_name, classVars, batchVars>>
    /\ UNCHANGED <<df, gear3_teeth, gear4_teeth, wheel2_radius_m, ts_raises, df_torque, stats>>

NextPilotName == ExtractPilotShortName

SpecPilotName == InitPilotName /\ [][NextPilotName]_vars

----------------------------------------------------------------------------
(* String order, as sorted() orders names and paths *)

Digits == <<"0", "1", "2", "3", "4", "5", "6", "7", "8", "9">>

\* the characters of the model in code point order
Ascii == <<" ", ".">> \o Digits \o UpperLetters \o <<"_">> \o LowerLetters

ord(c) == CHOOSE i \in 1..Len(Ascii) : Ascii[i] = c

RECURSIVE StrLess(_, _)
StrLess(a, b) ==
    IF b = <<>> THEN FALSE
    ELSE IF a = <<>> THEN TRUE
    ELSE IF a[1] = b[1] THEN StrLess(Tail(a), Tail(b))
    ELSE ord(a[1]) < ord(b[1])

\* tuples of strings, compared item by item
RECURSIVE KeyLess(_, _)
KeyLess(k, l) ==
    IF l = <<>> THEN FALSE
    ELSE IF k = <<>> THEN TRUE
    ELSE IF k[1] = l[1] THEN KeyLess(Tail(k), Tail(l))
    ELSE StrLess(k[1], l[1])

\* sorted(keys)
RECURSIVE sorted(_)
sorted(keys) ==
    IF keys = {} THEN <<>>
    ELSE LET least == CHOOSE k \in keys : \A l \in keys \ {k} : KeyLess(k, l)
         IN  <<least>> \o sorted(keys \ {least})

----------------------------------------------------------------------------
(* main and create_comparison_plots *)

MaxRuns == 3
MaxStale == 1

PilotDirs == {<<"A", "l", "R", " ", "T", "e", "s", "t", "s">>, <<"B", "o", " ", "T", "e", "s", "t", "s">>}

RunFileNames == {<<"1", "5", "0", "a", ".", "c", "s", "v">>, <<"1", "5", "0", "b", ".", "c", "s", "v">>, <<"p", "a", "s", "s", "i", "v", "e", ".", "c", "s", "v">>, <<"x", ".", "c", "s", "v">>}

\* a run is <<pilot directory, file name>>
Slots == PilotDirs \X RunFileNames

\* Path.stem of a "*.csv" name
stem(name) == SubSeq(name, 1, Len(name) - 4)

NoTable == [cols |-> {}, rows |-> <<>>]

Table(rows) == [cols |-> RequiredColumns, rows |-> rows]

\* what pd.read_csv finds at a path: nothing, a file it cannot parse, or a table
Absent == [kind |-> "absent", df |-> NoTable]

Unreadable == [kind |-> "unreadable", df |-> NoTable]

RunFiles ==
    {Unreadable,
     [kind |-> "table", df |-> Table(<<>>)],
     [kind |-> "table", df |-> Table(<<[timestamp |-> <<0>>, speed |-> <<0>>, power |-> <<3>>]>>)],
     [kind |-> "table", df |-> Table(<<[timestamp |-> <<0>>, speed |-> <<2>>, power |-> <<3>>]>>)]}

\* the directories and files under the output root
Dir(name, pilot) == [kind |-> name, pilot |-> pilot, file |-> <<>>]

OutputRoot == Dir("output_root", <<>>)

PlotsDir == Dir("plots", <<>>)

CsvDir == Dir("csv", <<>>)

ComparisonDir == Dir("comparison_plots", <<>>)

File(name, pilot, file) == [kind |-> name, pilot |-> pilot, file |-> file]

\* a normalised run left by an earlier batch: a table with the time_s and
\* torque4_nm columns, or a file that cannot be plotted
StaleFiles ==
    {[kind |-> "table", stale |-> TRUE, frame |-> <<>>],
     [kind |-> "unreadable", stale |-> TRUE, frame |-> <<>>]}

NoFile == [kind |-> "absent", stale |-> FALSE, frame |-> <<>>]

\* the total maps that give a value of `values` to at most n runs
Placed(values, none, n) ==
    UNION {{[s \in Slots |-> IF s \in chosen THEN f[s] ELSE none] : f \in [chosen -> values]}
           : chosen \in {c \in SUBSET Slots : Cardinality(c) <= n}}

\* lines 42-46
find_input_csvs(files) == sorted({s \in Slots : files[s].kind # "absent"})

INCH_TO_M == <<127, 5000>>

InitBatch ==
    /\ pc = "main"
    /\ input_exists \in BOOLEAN
    /\ input_files \in (IF input_exists THEN Placed(RunFiles, Absent, MaxRuns)
                        ELSE {[s \in Slots |-> Absent]})
    /\ out_csv \in Placed(StaleFiles, NoFile, MaxStale)
    /\ out_dirs = UNION {{OutputRoot, PlotsDir, CsvDir, Dir("plots", s[1]), Dir("csv", s[1])}
                         : s \in {t \in Slots : out_csv[t].kind # "absent"}}
    /\ out_plots = {}
    /\ summary_csv = [written |-> FALSE, records |-> <<>>]
    /\ comparison_plots = [t \in {"250W", "200W", "150W", "Passive", "Unknown"} |->
                              [saved |-> FALSE, series |-> <<>>]]
    /\ writes = {}
    /\ csv_files = <<>>
    /\ run_index = 0
    /\ summary_records = <<>>
    /\ exit_code = "none"
    \* config.json: lines 146-149
    /\ gear3_teeth = 2
    /\ gear4_teeth = 3
    /\ wheel2_radius_m = FMul(<<2500, 127>>, INCH_TO_M)
    /\ ts_raises = FALSE
    /\ df = NoTable
    /\ df_torque = <<>>
    /\ stats = NoStats
    /\ IdleClassifier
    /\ IdleNamer

\* lines 140-165: the output directories are made, then the runs are looked for
Main ==
    /\ pc = "main"
    /\ out_dirs' = out_dirs \cup {OutputRoot, PlotsDir, CsvDir}
    /\ writes' = writes \cup ({OutputRoot, PlotsDir, CsvDir} \ out_dirs)
    /\ IF ~input_exists
       THEN \* input_root.iterdir() raises FileNotFoundError
            /\ pc' = "done"
            /\ exit_code' = "raised"
            /\ UNCHANGED <<csv_files, run_index>>
       ELSE /\ csv_files' = find_input_csvs(input_files)
            /\ IF csv_files' = <<>>
               THEN pc' = "done" /\ exit_code' = "1" /\ UNCHANGED run_index
               ELSE pc' = "loop" /\ run_index' = 1 /\ UNCHANGED exit_code
    /\ UNCHANGED <<input_exists, input_files, out_csv, out_plots, summary_csv,
                   comparison_plots, summary_records>>
    /\ UNCHANGED <<df, gear3_teeth, gear4_teeth, wheel2_radius_m, ts_raises, df_torque, stats>>
    /\ UNCHANGED <<classVars, nameVars>>

\* lines 167-208: one turn of the loop
ProcessRun ==
    /\ pc = "loop"
    /\ run_index <= Len(csv_files)
    /\ LET csv_path == csv_files[run_index]
           pilot_name == csv_path[1]
           pilot_dirs == {Dir("plots", pilot_name), Dir("csv", pilot_name)}
           frame == compute_torque_frame(input_files[csv_path].df, gear3_teeth,
                                         gear4_teeth, wheel2_radius_m, ts_raises)
           outputs == {File("csv", pilot_name, csv_path[2]),
                       File("plot", pilot_name, csv_path[2])}
       IN  /\ out_dirs' = out_dirs \cup pilot_dirs
           /\ IF input_files[csv_path].kind = "unreadable"
              THEN \* "Failed to read": continue
                   /\ run_index' = run_index + 1
                   /\ writes' = writes \cup (pilot_dirs \ out_dirs)
                   /\ UNCHANGED <<out_csv, out_plots, summary_records, pc, exit_code,
                                  df, df_torque, stats>>
              ELSE /\ df' = input_files[csv_path].df
                   /\ df_torque' = frame
                   /\ out_csv' = [out_csv EXCEPT ![csv_path] =
                                     [kind |-> "table", stale |-> FALSE, frame |-> frame]]
                   /\ out_plots' = out_plots \cup {csv_path}
                   /\ writes' = writes \cup (pilot_dirs \ out_dirs) \cup outputs
                   /\ stats' = summary_stats(frame)
                   /\ IF summary_stats(frame).raised
                      THEN \* the ValueError of np.nanmax leaves main
                           /\ pc' = "done"
                           /\ exit_code' = "raised"
                           /\ UNCHANGED <<summary_records, run_index>>
                      ELSE /\ summary_records' = Append(summary_records,
                                  [pilot |-> pilot_name,
                                   file |-> csv_path,
                                   out_csv |-> File("csv", pilot_name, csv_path[2]),
                                   torque_median_nm |-> summary_stats(frame).torque_median_nm,
                                   torque_max_nm |-> summary_stats(frame).torque_max_nm])
                           /\ run_index' = run_index + 1
                           /\ UNCHANGED <<pc, exit_code>>
    /\ UNCHANGED <<input_exists, input_files, summary_csv, comparison_plots, csv_files>>
    /\ UNCHANGED <<gear3_teeth, gear4_teeth, wheel2_radius_m, ts_raises>>
    /\ UNCHANGED <<classVars, nameVars>>

\* lines 210-213
WriteSummary ==
    /\ pc = "loop"
    /\ run_index > Len(csv_files)
    /\ summary_csv' = [written |-> TRUE, records |-> summary_records]
    /\ writes' = writes \cup {File("summary.csv", <<>>, <<>>)}
    /\ pc' = "compare"
    /\ UNCHANGED <<input_exists, input_files, out_dirs, out_csv, out_plots, comparison_plots,
                   csv_files, run_index, summary_records, exit_code>>
    /\ UNCHANGED <<df, gear3_teeth, gear4_teeth, wheel2_radius_m, ts_raises, df_torque, stats>>
    /\ UNCHANGED <<classVars, nameVars>>

\* lines 96-104: test_type -> the (pilot_name, csv_path) pairs under csv_out_dir
test_data(csvs, test) ==
    {<<extract_pilot_short_name(s[1]), s[1], s[2]>> :
        s \in {t \in Slots : csvs[t].kind # "absent" /\ extract_test_type(stem(t[2])) = test}}

\* lines 116-124: the pairs in sorted order, without those whose file cannot be plotted
plotted_series(csvs, test) ==
    SelectSeq(sorted(test_data(csvs, test)),
              LAMBDA k : csvs[<<k[2], k[3]>>].kind = "table")

\* lines 88-137, then main returns 0
CreateComparisonPlots ==
    /\ pc = "compare"
    /\ out_dirs' = out_dirs \cup {ComparisonDir}
    /\ comparison_plots' =
          [t \in DOMAIN comparison_plots |->
              IF t # "Unknown" /\ test_data(out_csv, t) # {}
              THEN [saved |-> TRUE, series |-> plotted_series(out_csv, t)]
              ELSE comparison_plots[t]]
    /\ writes' = writes \cup ({ComparisonDir} \ out_dirs)
                        \cup {File("comparison_plot", <<>>, t) :
                                t \in {u \in DOMAIN comparison_plots :
                                         u # "Unknown" /\ test_data(out_csv, u) # {}}}
    /\ pc' = "done"
    /\ exit_code' = "0"
    /\ UNCHANGED <<input_exists, input_files, out_csv, out_plots, summary_csv,
                   csv_files, run_index, summary_records>>
    /\ UNCHANGED <<df, gear3_teeth, gear4_teeth, wheel2_radius_m, ts_raises, df_torque, stats>>
    /\ UNCHANGED <<classVars, nameVars>>

NextBatch == Main \/ ProcessRun \/ WriteSummary \/ CreateComparisonPlots

SpecBatch == InitBatch /\ [][NextBatch]_vars

----------------------------------------------------------------------------
(* The frame normaliser applied to one run, then summarised as main does *)

Gear3Values == {0, 2}
Gear4Values == {3}
RadiusValues == {<<1, 2>>}

InitFrame ==
    /\ pc = "frame"
    /\ df \in RawRuns
    /\ gear3_teeth \in Gear3Values
    /\ gear4_teeth \in Gear4Values
    /\ wheel2_radius_m \in RadiusValues
    /\ ts_raises \in BOOLEAN
    /\ df_torque = <<>>
    /\ stats = NoStats
    /\ IdleClassifier
    /\ IdleNamer
    /\ IdleBatch

ComputeTorqueFrame ==
    /\ pc = "frame"
    /\ df_torque' = compute_torque_frame(df, gear3_teeth, gear4_teeth,
                                         wheel2_radius_m, ts_raises)
    /\ pc' = "summary"
    /\ UNCHANGED <<df, gear3_teeth, gear4_teeth, wheel2_radius_m, ts_raises, stats>>
    /\ UNCHANGED <<classVars, nameVars, batchVars>>

Summarize ==
    /\ pc = "summary"
    /\ stats' = summary_stats(df_torque)
    /\ pc' = IF summary_stats(df_torque).raised THEN "raised" ELSE "recorded"
    /\ UNCHANGED <<df, gear3_teeth, gear4_teeth, wheel2_radius_m, ts_raises, df_torque>>
    /\ UNCHANGED <<classVars, nameVars, batchVars>>

NextFrame == ComputeTorqueFrame \/ Summarize

SpecFrame == InitFrame /\ [][NextFrame]_vars

----------------------------------------------------------------------------
(* Claims about the frame normaliser, checked under SpecFrame *)

\* the number a raw cell stands for, 0 when it is missing or unparsable
RawNumber(cell) == IF cell = <<>> THEN 0 ELSE cell[1]

Computed == pc # "frame"

\* C1: with gear3_teeth != 0, every row of the normalised run whose
\* speed_mps != 0 has torque4_nm = power_w * (gear4_teeth / gear3_teeth) *
\* wheel2_radius_m / speed_mps exactly (a finite value, stated here by cross
\* multiplication), where speed_mps = numeric(speed, default 0) * 0.44704
\* and power_w = numeric(power, default 0).
C1_TorqueFormula ==
    Computed =>
        /\ Len(df_torque) = Len(df.rows)
        /\ \A i \in 1..Len(df_torque) :
            LET row == df_torque[i]
                s == row.speed_mps
                p == row.power_w
                t == row.torque4_nm
            IN  /\ s[2] > 0
                /\ s[1] * 100000 = RawNumber(df.rows[i].speed) * 44704 * s[2]
                /\ p = <<RawNumber(df.rows[i].power), 1>>
                /\ (gear3_teeth # 0 /\ s[1] # 0) =>
                    /\ t[2] > 0
                    /\ t[1] * (gear3_teeth * wheel2_radius_m[2] * s[1] * p[2])
                         = t[2] * (p[1] * gear4_teeth * wheel2_radius_m[1] * s[2])

\* C1's case: a computed run with a row of non-zero speed and power
C1_Witness ==
    /\ pc = "recorded"
    /\ gear3_teeth # 0
    /\ \E i \in 1..Len(df_torque) :
        /\ df_torque[i].speed_mps[1] < 0
        /\ df_torque[i].power_w[1] # 0
        /\ df_torque[i].torque4_nm[1] # 0

\* the defined torque values of the normalised run
DefinedTorques == {i \in 1..Len(df_torque) : df_torque[i].torque4_nm # NaN}

Below(v) == Cardinality({i \in DefinedTorques : FLess(df_torque[i].torque4_nm, v)})

AtMost(v) == Cardinality({i \in DefinedTorques : ~FLess(v, df_torque[i].torque4_nm)})

\* v is the k-th smallest of the defined torque values
IsKth(k, v) ==
    /\ \E i \in DefinedTorques : df_torque[i].torque4_nm = v
    /\ Below(v) < k
    /\ k <= AtMost(v)

IsMedianOfDefined(m) ==
    LET n == Cardinality(DefinedTorques)
    IN  IF n = 0 THEN m = NaN
        ELSE IF n % 2 = 1 THEN IsKth((n + 1) \div 2, m)
        ELSE \E i, j \in DefinedTorques :
                LET a == df_torque[i].torque4_nm
                    b == df_torque[j].torque4_nm
                IN  /\ IsKth(n \div 2, a)
                    /\ IsKth(n \div 2 + 1, b)
                    /\ IsFinite(m)
                    /\ FAdd(m, m) = FAdd(a, b)

IsMaxOfDefined(m) ==
    IF DefinedTorques = {} THEN m = NaN
    ELSE IsKth(Cardinality(DefinedTorques), m)

C3_OrdinalFallback ==
    (Computed /\ \A i \in 1..Len(df.rows) : df.rows[i].timestamp = <<>>)
        => \A i \in 1..Len(df_torque) : df_torque[i].time_s = F(i - 1)

----------------------------------------------------------------------------
(* Claims about the run classifier, checked under SpecTestType and         *)
(* SpecPilotName                                                           *)

\* the places of s where pat occurs
Occurrences(pat, s) ==
    {i \in 1..(Len(s) - Len(pat) + 1) : \A k \in 1..Len(pat) : s[i + k - 1] = pat[k]}

\* s with the case of every letter changed to upper case
UpperCased(s) ==
    [i \in 1..Len(s) |->
        IF \E k \in 1..26 : LowerLetters[k] = s[i]
        THEN UpperLetters[CHOOSE k \in 1..26 : LowerLetters[k] = s[i]]
        ELSE s[i]]

\* s contains pat whatever the case of its letters
Mentions(pat, s) == Occurrences(UpperCased(pat), UpperCased(s)) # {}

\* C4: extract_test_type is total and case-insensitive and returns the first
\* match in the order 250, 200, 150, Passive, Unknown, each wattage only
\* without "passive": so Passive exactly when the filename contains
\* "passive", and the highest-priority wattage when several occur.
C4_TestTypeOrder ==
    pc = "classified" =>
        LET passive == Mentions(SPassive, filename)
            w250 == Mentions(S250, filename)
            w200 == Mentions(S200, filename)
            w150 == Mentions(S150, filename)
        IN  /\ test_type \in {"250W", "200W", "150W", "Passive", "Unknown"}
            /\ test_type = "Passive" <=> passive
            /\ test_type = "250W" <=> (w250 /\ ~passive)
            /\ test_type = "200W" <=> (w200 /\ ~w250 /\ ~passive)
            /\ test_type = "150W" <=> (w150 /\ ~w200 /\ ~w250 /\ ~passive)
            /\ test_type = "Unknown" <=> ~(w250 \/ w200 \/ w150 \/ passive)
            /\ test_type = extract_test_type(UpperCased(filename))

\* C4's case: a classified filename with two wattage tokens, and no
\* "passive", that resolves to the one checked first
C4_Witness ==
    /\ pc = "classified"
    /\ Mentions(S250, filename)
    /\ Mentions(S200, filename)
    /\ Occurrences(S200, filename) # {}
    /\ \A i \in Occurrences(S250, filename) : \E j \in Occurrences(S200, filename) : j < i
    /\ test_type = "250W"

\* the characters of s outside every occurrence of pat, in order
WithoutOccurrences(pat, s) ==
    LET covered == {i \in 1..Len(s) : \E o \in Occurrences(pat, s) : o <= i /\ i < o + Len(pat)}
        kept == (1..Len(s)) \ covered
        place(k) == CHOOSE i \in kept : Cardinality({j \in kept : j <= i}) = k
    IN  [k \in 1..Cardinality(kept) |-> s[place(k)]]

\* s without its leading and trailing whitespace
Trimmed(s) ==
    LET solid == {i \in 1..Len(s) : s[i] \notin Whitespace}
    IN  IF solid = {} THEN <<>>
        ELSE SubSeq(s, CHOOSE i \in solid : \A j \in solid : i <= j,
                       CHOOSE i \in solid : \A j \in solid : j <= i)

\* one space before the last character, when it is upper case after a
\* lower case one
CamelSplit(s) ==
    LET n == Len(s)
    IN  IF n > 1 /\ (\E k \in 1..26 : UpperLetters[k] = s[n])
                 /\ (\E k \in 1..26 : LowerLetters[k] = s[n - 1])
        THEN [i \in 1..(n + 1) |-> IF i < n THEN s[i] ELSE IF i = n THEN " " ELSE s[n]]
        ELSE s

\* s without a " Tests" it ends with
WithoutSuffix(s) ==
    IF Len(s) - Len(STests) + 1 \in Occurrences(STests, s)
    THEN SubSeq(s, 1, Len(s) - Len(STests))
    ELSE s

\* C5 as stated: only a trailing " Tests" is removed (before or after the
\* whitespace is trimmed), then the name is trimmed and the camel boundary
\* split once.
C5_TrailingSuffixOnly ==
    pc = "named" =>
        \/ short_name = CamelSplit(Trimmed(WithoutSuffix(pilot_dir_name)))
        \/ short_name = CamelSplit(Trimmed(WithoutSuffix(Trimmed(pilot_dir_name))))

\* C5 as amended: every occurrence of " Tests" in the name is removed (exact,
\* case-sensitive), wherever it stands; the rest is trimmed of whitespace and
\* the camel boundary before its last character split once; no other
\* character changes.
C5_EveryOccurrenceRemoved ==
    pc = "named" =>
        short_name = CamelSplit(Trimmed(WithoutOccurrences(STests, pilot_dir_name)))

\* C5's case: a name with " Tests" before its end, whose remainder is split
\* at its camel boundary
C5_Witness ==
    /\ pc = "named"
    /\ \E o \in Occurrences(STests, pilot_dir_name) : o + Len(STests) <= Len(pilot_dir_name)
    /\ Len(short_name) > 2
    /\ short_name[Len(short_name) - 1] = " "
    /\ short_name[Len(short_name)] = "R"
    /\ short_name[Len(short_name) - 2] = "l"

----------------------------------------------------------------------------
(* Claims about the batch, checked under SpecBatch *)

Ended == pc = "done"

\* the runs of this batch that pd.read_csv loaded, in discovery order
LoadedRuns == SelectSeq(csv_files, LAMBDA s : input_files[s].kind = "table")

\* C6: a batch with at least one discovered run, whatever runs fail to
\* load, does not abort and returns 0, and the written summary holds exactly
\* one record per run that loaded, in discovery order, and none for a run
\* that failed to load.
C6_SummaryPerLoadedRun ==
    (Ended /\ csv_files # <<>>) =>
        /\ exit_code = "0"
        /\ summary_csv.written
        /\ Len(summary_csv.records) = Len(LoadedRuns)
        /\ \A k \in 1..Len(LoadedRuns) : summary_csv.records[k].file = LoadedRuns[k]

\* C7: when no run is discovered under the input root, main returns 1 and
\* nothing is created or modified under the output root.
C7_ZeroInputNoWrites ==
    (Ended /\ input_exists /\ csv_files = <<>>) =>
        /\ exit_code = "1"
        /\ ~summary_csv.written
        /\ writes = {}

\* the normalised runs of a test type under output_root/csv
RunsOfType(t) ==
    {s \in Slots : out_csv[s].kind # "absent" /\ extract_test_type(stem(s[2])) = t}

\* the pilot directories with a readable normalised run of a test type
PilotsOfType(t) == {s[1] : s \in {r \in RunsOfType(t) : out_csv[r].kind = "table"}}

\* C8: every test type but Unknown with at least one normalised run gets
\* exactly one overlay, holding exactly one series per pilot with a readable
\* run of the type, in the order of the pilots' display names; Unknown gets
\* no overlay.
C8_OneSeriesPerPilot ==
    (Ended /\ exit_code = "0") =>
        \A t \in DOMAIN comparison_plots :
            LET overlay == comparison_plots[t]
            IN  /\ overlay.saved <=> (t # "Unknown" /\ RunsOfType(t) # {})
                /\ overlay.saved =>
                    /\ Len(overlay.series) = Cardinality(PilotsOfType(t))
                    /\ \A p \in PilotsOfType(t) :
                          \E k \in 1..Len(overlay.series) : overlay.series[k][2] = p
                    /\ \A k \in 1..(Len(overlay.series) - 1) :
                          ~StrLess(overlay.series[k + 1][1], overlay.series[k][1])

\* C9: once a run has been discovered nothing aborts the batch: every run is
\* processed or skipped, the summary is written, the comparison stage runs
\* and main returns 0.
C9_NeverAborts ==
    (Ended /\ csv_files # <<>>) =>
        /\ run_index = Len(csv_files) + 1
        /\ summary_csv.written
        /\ ComparisonDir \in out_dirs
        /\ exit_code = "0"

\* C10: whatever the output directory held when the batch started, no series
\* of an overlay is read from a normalised file of a run whose input failed
\* to load in this batch.
C10_FailedRunsNotCompared ==
    Ended =>
        \A t \in DOMAIN comparison_plots :
            \A k \in 1..Len(comparison_plots[t].series) :
                LET series == comparison_plots[t].series[k]
                IN  input_files[<<series[2], series[3]>>].kind # "unreadable"

====
